---- MODULE Spec2Model ----
(***************************************************************************)
(* The timeline of the OpenCut editor: the zustand timeline store          *)
(* (apps/web/src/stores/timeline-store.ts) and the Timeline component that *)
(* drives it (components/editor/timeline.tsx).                             *)
(*                                                                         *)
(* Time is counted in ticks of 0.1 s, the grid the drop handlers snap to   *)
(* (Math.round(t * 10) / 10); pointer positions are counted in pixels at   *)
(* zoom level 1, where one second is 50 pixels, so one tick is 5 pixels.   *)
(* The arithmetic is exact: the rounding error of IEEE doubles is not      *)
(* modelled.                                                               *)
(***************************************************************************)
EXTENDS Integers, Sequences, FiniteSets, TLC

VARIABLES
    tracks,         \* TimelineStore.tracks
    selectedClips,  \* TimelineStore.selectedClips: a list of (trackId, clipId)
    history,        \* History Manager: the undo stack of tracks snapshots
    redoStack,      \* History Manager: the redo stack of tracks snapshots
    currentTime,    \* PlaybackStore.currentTime (the playhead)
    duration,       \* PlaybackStore.duration
    frames,         \* callbacks queued with requestAnimationFrame
    toast,          \* the kind of the notice last shown: toast.success, toast.error
    nextTrackId,    \* the next id crypto.randomUUID() gives to a track
    nextClipId      \* the next id crypto.randomUUID() gives to a clip

vars == <<tracks, selectedClips, history, redoStack, currentTime, duration,
          frames, toast, nextTrackId, nextClipId>>

----------------------------------------------------------------------------
(* Bounds of the model *)

\* addTrack is called at most MaxTracks times
MaxTracks == 2

\* addClipToTrack is called at most MaxClips times
MaxClips == 2

\* at most MaxSelected pairs are held in selectedClips
MaxSelected == 1

\* at most MaxHistory snapshots are held on the undo stack
MaxHistory == 4

(* Program constants *)

\* the ticks of one second: the drop handlers round to 1/10 s
TicksPerSecond == 10

\* the pixels of one second at zoom level 1 (x / (50 * zoomLevel))
PixelsPerSecond == 50

\* a media item without duration is placed as a 5 s clip (duration || 5)
DefaultClipSeconds == 5

\* a freeze frame is created with duration: 1
FreezeSeconds == 1

\* setDuration(Math.max(totalDuration, 10))
MinDurationSeconds == 10

\* the gap, in ticks, a duplicate leaves after its original (+ 0.1)
DuplicateGap == 1

PixelsPerTick == PixelsPerSecond \div TicksPerSecond

----------------------------------------------------------------------------
(* Arithmetic and sequences *)

Max(a, b) == IF a >= b THEN a ELSE b

Min(a, b) == IF a <= b THEN a ELSE b

\* Math.round(n / d) for d > 0: the nearest integer, halves towards +infinity
RoundDiv(n, d) == (2 * n + d) \div (2 * d)

\* Array.prototype.map
MapSeq(s, F(_)) == [i \in 1..Len(s) |-> F(s[i])]

\* Array.prototype.filter
FilterSeq(s, P(_)) == SelectSeq(s, P)

\* Array.prototype.some
Some(s, P(_)) == \E i \in 1..Len(s) : P(s[i])

\* Array.prototype.find: the first element satisfying P, in a record
\* [found, value]; found is FALSE where find returns undefined
Find(s, P(_)) ==
    IF \E i \in 1..Len(s) : P(s[i])
    THEN [found |-> TRUE,
          value |-> s[CHOOSE i \in 1..Len(s) :
                        P(s[i]) /\ \A j \in 1..(i - 1) : ~P(s[j])]]
    ELSE [found |-> FALSE, value |-> <<>>]

----------------------------------------------------------------------------
(* The timeline store: timeline-store.ts.  Every operation is the function *)
(* of the state that its set((state) => ...) callback computes.  A clip is *)
(* [id, mediaId, name, duration, startTime, trimStart, trimEnd, muted], a  *)
(* track is [id, name, type, clips, muted]; a name is the list of its      *)
(* parts (the media name, then the suffixes appended to it).               *)

TrackTypes == {"video", "audio", "effects"}

\* `${type.charAt(0).toUpperCase() + type.slice(1)} Track`
TrackName(type) ==
    CASE type = "video" -> "Video Track"
      [] type = "audio" -> "Audio Track"
      [] OTHER -> "Effects Track"

\* clip.duration - clip.trimStart - clip.trimEnd
EffectiveDuration(clip) == clip.duration - clip.trimStart - clip.trimEnd

\* ClipEnd, were it to leave trimEnd out
ClipEndUntrimmed(clip) == clip.startTime + clip.duration - clip.trimStart

\* clip.startTime + (clip.duration - clip.trimStart - clip.trimEnd)
ClipEnd(clip) == clip.startTime + EffectiveDuration(clip)

\* the track object addTrack builds
NewTrack(type, id) ==
    [id |-> id, name |-> TrackName(type), type |-> type, clips |-> <<>>,
     muted |-> FALSE]

addTrack(trs, type, id) == Append(trs, NewTrack(type, id))

\* removeTrack, were it to remove the tracks made before that one as well
removeTrackAndOlder(trs, trackId) == FilterSeq(trs, LAMBDA track : track.id > trackId)

removeTrack(trs, trackId) == FilterSeq(trs, LAMBDA track : track.id /= trackId)

\* NewClip, were it to keep the trims of the clipData it is given
NewClipKeepsTrims(clipData, id) ==
    [id |-> id,
     mediaId |-> clipData.mediaId,
     name |-> clipData.name,
     duration |-> clipData.duration,
     startTime |-> IF clipData.startTime = 0 THEN 0 ELSE clipData.startTime,
     trimStart |-> clipData.trimStart,
     trimEnd |-> clipData.trimEnd,
     muted |-> FALSE]

\* the clip object addClipToTrack builds from the clipData it is given:
\* ...clipData, then id, startTime, trimStart, trimEnd and muted set over it
NewClip(clipData, id) ==
    [id |-> id,
     mediaId |-> clipData.mediaId,
     name |-> clipData.name,
     duration |-> clipData.duration,
     startTime |-> IF clipData.startTime = 0 THEN 0 ELSE clipData.startTime,
     trimStart |-> 0,
     trimEnd |-> 0,
     muted |-> FALSE]

\* addClipToTrack, were it to put the new clip first
addClipToTrackFront(trs, trackId, clipData, id) ==
    MapSeq(trs, LAMBDA track :
        IF track.id = trackId
        THEN [track EXCEPT !.clips = <<NewClip(clipData, id)>> \o @]
        ELSE track)

addClipToTrack(trs, trackId, clipData, id) ==
    MapSeq(trs, LAMBDA track :
        IF track.id = trackId
        THEN [track EXCEPT !.clips = Append(@, NewClip(clipData, id))]
        ELSE track)

\* removeClipFromTrack, were it to look for the clip in every track
removeClipFromAnyTrack(trs, trackId, clipId) ==
    MapSeq(trs, LAMBDA track :
        [track EXCEPT !.clips = FilterSeq(@, LAMBDA clip : clip.id /= clipId)])

removeClipFromTrack(trs, trackId, clipId) ==
    MapSeq(trs, LAMBDA track :
        IF track.id = trackId
        THEN [track EXCEPT
                 !.clips = FilterSeq(@, LAMBDA clip : clip.id /= clipId)]
        ELSE track)

\* moveClipToTrack, were the clip left in its source track as well
moveClipToTrackCopying(trs, fromTrackId, toTrackId, clipId) ==
    LET fromTrack == Find(trs, LAMBDA track : track.id = fromTrackId)
        clipToMove ==
            IF fromTrack.found
            THEN Find(fromTrack.value.clips, LAMBDA clip : clip.id = clipId)
            ELSE [found |-> FALSE, value |-> <<>>]
    IN  IF ~clipToMove.found
        THEN trs
        ELSE MapSeq(trs, LAMBDA track :
                 IF track.id = fromTrackId
                 THEN track
                 ELSE IF track.id = toTrackId
                 THEN [track EXCEPT !.clips = Append(@, clipToMove.value)]
                 ELSE track)

moveClipToTrack(trs, fromTrackId, toTrackId, clipId) ==
    LET fromTrack == Find(trs, LAMBDA track : track.id = fromTrackId)
        clipToMove ==
            IF fromTrack.found
            THEN Find(fromTrack.value.clips, LAMBDA clip : clip.id = clipId)
            ELSE [found |-> FALSE, value |-> <<>>]
    IN  IF ~clipToMove.found
        THEN trs
        ELSE MapSeq(trs, LAMBDA track :
                 IF track.id = fromTrackId
                 THEN [track EXCEPT
                          !.clips = FilterSeq(@, LAMBDA clip : clip.id /= clipId)]
                 ELSE IF track.id = toTrackId
                 THEN [track EXCEPT !.clips = Append(@, clipToMove.value)]
                 ELSE track)

updateClipTrim(trs, trackId, clipId, trimStart, trimEnd) ==
    MapSeq(trs, LAMBDA track :
        IF track.id = trackId
        THEN [track EXCEPT !.clips = MapSeq(@, LAMBDA clip :
                 IF clip.id = clipId
                 THEN [clip EXCEPT !.trimStart = trimStart, !.trimEnd = trimEnd]
                 ELSE clip)]
        ELSE track)

\* updateClipStartTime, were it to set the start of every clip of the track
updateClipStartTimeOfAll(trs, trackId, clipId, startTime) ==
    MapSeq(trs, LAMBDA track :
        IF track.id = trackId
        THEN [track EXCEPT !.clips = MapSeq(@, LAMBDA clip :
                 [clip EXCEPT !.startTime = startTime])]
        ELSE track)

updateClipStartTime(trs, trackId, clipId, startTime) ==
    MapSeq(trs, LAMBDA track :
        IF track.id = trackId
        THEN [track EXCEPT !.clips = MapSeq(@, LAMBDA clip :
                 IF clip.id = clipId
                 THEN [clip EXCEPT !.startTime = startTime]
                 ELSE clip)]
        ELSE track)

toggleTrackMute(trs, trackId) ==
    MapSeq(trs, LAMBDA track :
        IF track.id = trackId THEN [track EXCEPT !.muted = ~@] ELSE track)

toggleClipMute(trs, trackId, clipId) ==
    MapSeq(trs, LAMBDA track :
        IF track.id = trackId
        THEN [track EXCEPT !.clips = MapSeq(@, LAMBDA clip :
                 IF clip.id = clipId THEN [clip EXCEPT !.muted = ~@] ELSE clip)]
        ELSE track)

\* track.clips.reduce((maxEnd, clip) => Math.max(maxEnd, clipEnd), 0)
RECURSIVE TrackEndTime(_)
TrackEndTime(clips) ==
    IF clips = <<>> THEN 0
    ELSE Max(TrackEndTime(SubSeq(clips, 1, Len(clips) - 1)),
             ClipEnd(clips[Len(clips)]))

\* Math.max(...trackEndTimes, 0)
RECURSIVE MaxOfAll(_)
MaxOfAll(ends) ==
    IF ends = <<>> THEN 0 ELSE Max(Head(ends), MaxOfAll(Tail(ends)))

getTotalDuration(trs) ==
    IF Len(trs) = 0 THEN 0
    ELSE MaxOfAll(MapSeq(trs, LAMBDA track : TrackEndTime(track.clips)))

----------------------------------------------------------------------------
(* The selection and the history of the store.  The Timeline component     *)
(* calls selectClip(trackId, clipId, additive), deselectClip,              *)
(* setSelectedClips, clearSelectedClips, undo and redo; they are modelled  *)
(* from the contracts of the Selection Manager and the History Manager.    *)

SamePair(p, trackId, clipId) == p.trackId = trackId /\ p.clipId = clipId

\* selectedClips.some((c) => c.trackId === track.id && c.clipId === clip.id)
IsSelected(sel, trackId, clipId) ==
    Some(sel, LAMBDA c : SamePair(c, trackId, clipId))

\* selectClip, were an additive selection to add the pair without looking
selectClipAppending(sel, trackId, clipId, additive) ==
    IF ~additive
    THEN << [trackId |-> trackId, clipId |-> clipId] >>
    ELSE Append(sel, [trackId |-> trackId, clipId |-> clipId])

selectClip(sel, trackId, clipId, additive) ==
    IF ~additive
    THEN << [trackId |-> trackId, clipId |-> clipId] >>
    ELSE IF IsSelected(sel, trackId, clipId)
    THEN FilterSeq(sel, LAMBDA c : ~SamePair(c, trackId, clipId))
    ELSE Append(sel, [trackId |-> trackId, clipId |-> clipId])

deselectClip(sel, trackId, clipId) ==
    FilterSeq(sel, LAMBDA c : ~SamePair(c, trackId, clipId))

clearSelectedClips(sel) == <<>>

setSelectedClips(sel, pairs) == pairs

\* pushHistory, were it to take its snapshot after the mutation
pushHistoryAfter(st, newTracks) ==
    [tracks |-> newTracks,
     history |-> Append(st.history, newTracks),
     redoStack |-> <<>>]

\* a store state [tracks, history, redoStack] before a mutating operation
\* that yields newTracks: the snapshot is pushed, the redo stack cleared
pushHistory(st, newTracks) ==
    [tracks |-> newTracks,
     history |-> Append(st.history, st.tracks),
     redoStack |-> <<>>]

undo(st) ==
    IF st.history = <<>> THEN st
    ELSE [tracks |-> st.history[Len(st.history)],
          history |-> SubSeq(st.history, 1, Len(st.history) - 1),
          redoStack |-> Append(st.redoStack, st.tracks)]

redo(st) ==
    IF st.redoStack = <<>> THEN st
    ELSE [tracks |-> st.redoStack[Len(st.redoStack)],
          history |-> Append(st.history, st.tracks),
          redoStack |-> SubSeq(st.redoStack, 1, Len(st.redoStack) - 1)]

----------------------------------------------------------------------------
(* The media store and the pointer, as the Timeline component reads them *)

\* useMediaStore().mediaItems; durations in ticks, 0 where the item has none
MediaItems ==
    { [id |-> "vid", name |-> "vid", type |-> "video", duration |-> 20],
      [id |-> "aud", name |-> "aud", type |-> "audio", duration |-> 0] }

\* the {id, type} a drag of a media item carries; "gone" is an id that is
\* no longer in the media store
MediaDrags ==
    { [id |-> m.id, type |-> m.type] : m \in MediaItems }
        \cup { [id |-> "gone", type |-> "video"] }

\* mediaItems.find((item) => item.id === id)
FindMedia(id) ==
    IF \E m \in MediaItems : m.id = id
    THEN [found |-> TRUE, value |-> CHOOSE m \in MediaItems : m.id = id]
    ELSE [found |-> FALSE, value |-> <<>>]

\* mediaItem.duration || 5
MediaClipDuration(mediaItem) ==
    IF mediaItem.duration = 0
    THEN DefaultClipSeconds * TicksPerSecond
    ELSE mediaItem.duration

\* pointer positions over a track, in pixels from its left edge
MouseXs == {2, 98}

\* where inside the clip a clip drag was grabbed, in pixels from its left
ClickOffsetXs == {0, 26}

\* pointer positions of a click on the ruler or the timeline area, in pixels
SeekXs == {0, 50, 600}

\* an id crypto.randomUUID() never hands out: it stands for the id of a
\* track or clip that has been removed since the menu or the drag began
NoId == 0

\* what a context menu or a drag may be about: a rendered clip, or one
\* that is gone by the time the handler runs
ClipTargets(trs) ==
    { [trackId |-> trs[i].id, clipId |-> trs[i].clips[j].id] :
        <<i, j>> \in { <<i, j>> \in (1..Len(trs)) \X (1..MaxClips) :
                          j <= Len(trs[i].clips) } }
        \cup { [trackId |-> NoId, clipId |-> NoId] }

TrackTargets(trs) == { trs[i].id : i \in 1..Len(trs) } \cup {NoId}

\* Math.round((mouseX / (50 * zoomLevel)) * 10) / 10, in ticks
SnappedTime(mouseX) == RoundDiv(Max(0, mouseX) * TicksPerSecond, PixelsPerSecond)

\* FinalStartTime, were it not held at or above 0
FinalStartTimeUnclamped(snappedTime, clickOffsetX) ==
    RoundDiv(snappedTime * PixelsPerTick - clickOffsetX, PixelsPerTick)

\* Math.max(0, Math.round((snappedTime - clickOffsetTime) * 10) / 10), where
\* clickOffsetTime = clickOffsetX / (50 * zoomLevel)
FinalStartTime(snappedTime, clickOffsetX) ==
    Max(0, RoundDiv(snappedTime * PixelsPerTick - clickOffsetX, PixelsPerTick))

\* tracks.find((t) => t.id === trackId) and track?.clips.find((c) => c.id === clipId)
LookupClip(trs, trackId, clipId) ==
    LET track == Find(trs, LAMBDA t : t.id = trackId)
        clip == IF track.found
                THEN Find(track.value.clips, LAMBDA c : c.id = clipId)
                ELSE [found |-> FALSE, value |-> <<>>]
    IN  [found |-> clip.found, track |-> track.value, clip |-> clip.value]

----------------------------------------------------------------------------
(* The Timeline component: what its handlers compute *)

MinDuration == MinDurationSeconds * TicksPerSecond

\* the effect on [tracks]: setDuration(Math.max(getTotalDuration(), 10))
\* DurationEffect, were it to set the total duration as it is
DurationEffectNoFloor(trs) == getTotalDuration(trs)

DurationEffect(trs) == Max(getTotalDuration(trs), MinDuration)

\* ClampedTime, were the time not held below the duration
ClampedTimeUnbounded(x, dur) == Max(0, x \div PixelsPerTick)

\* Math.max(0, Math.min(duration, x / (50 * zoomLevel))), in ticks
ClampedTime(x, dur) == Max(0, Min(dur, x \div PixelsPerTick))

\* toast.success(text) and toast.error(text): the state keeps the kind of
\* the notice; its text is what the handler passes
Message(kind, text) == kind

NoToast == "none"

\* the split both split handlers perform once the playhead is inside the clip
SplitClip(trs, track, clip, splitTime, id) ==
    addClipToTrack(
        updateClipTrim(trs, track.id, clip.id, clip.trimStart,
                       clip.trimEnd + (ClipEnd(clip) - splitTime)),
        track.id,
        [mediaId |-> clip.mediaId,
         name |-> Append(clip.name, "(split)"),
         duration |-> clip.duration,
         startTime |-> splitTime,
         trimStart |-> clip.trimStart + (splitTime - clip.startTime),
         trimEnd |-> clip.trimEnd],
        id)

\* PlayheadInside, were its first comparison >= instead of >
PlayheadInsideOrAtStart(clip, splitTime) ==
    splitTime >= clip.startTime /\ splitTime < ClipEnd(clip)

\* splitTime > effectiveStart && splitTime < effectiveEnd
PlayheadInside(clip, splitTime) ==
    splitTime > clip.startTime /\ splitTime < ClipEnd(clip)

\* DuplicateClip, were it to leave no gap after the original
DuplicateClipNoGap(trs, track, clip, id) ==
    addClipToTrack(trs, track.id,
        [mediaId |-> clip.mediaId,
         name |-> Append(clip.name, "(copy)"),
         duration |-> clip.duration,
         startTime |-> clip.startTime + EffectiveDuration(clip),
         trimStart |-> clip.trimStart,
         trimEnd |-> clip.trimEnd],
        id)

DuplicateClip(trs, track, clip, id) ==
    addClipToTrack(trs, track.id,
        [mediaId |-> clip.mediaId,
         name |-> Append(clip.name, "(copy)"),
         duration |-> clip.duration,
         startTime |-> clip.startTime + EffectiveDuration(clip) + DuplicateGap,
         trimStart |-> clip.trimStart,
         trimEnd |-> clip.trimEnd],
        id)

FreezeClip(trs, track, clip, time, id) ==
    addClipToTrack(trs, track.id,
        [mediaId |-> clip.mediaId,
         name |-> Append(clip.name, "(freeze)"),
         duration |-> FreezeSeconds * TicksPerSecond,
         startTime |-> time,
         trimStart |-> 0,
         trimEnd |-> clip.duration - FreezeSeconds * TicksPerSecond],
        id)

\* selectedClips.forEach of the toolbar handlers: every pair is looked up in
\* snap, the tracks the handler was rendered with, and applied to the store
RECURSIVE SplitEach(_, _, _, _, _)
SplitEach(sel, snap, trs, splitTime, id) ==
    IF sel = <<>> THEN [tracks |-> trs, nextId |-> id]
    ELSE LET l == LookupClip(snap, Head(sel).trackId, Head(sel).clipId)
         IN  IF l.found /\ PlayheadInside(l.clip, splitTime)
             THEN SplitEach(Tail(sel), snap,
                            SplitClip(trs, l.track, l.clip, splitTime, id),
                            splitTime, id + 1)
             ELSE SplitEach(Tail(sel), snap, trs, splitTime, id)

RECURSIVE DuplicateEach(_, _, _, _)
DuplicateEach(sel, snap, trs, id) ==
    IF sel = <<>> THEN [tracks |-> trs, nextId |-> id]
    ELSE LET l == LookupClip(snap, Head(sel).trackId, Head(sel).clipId)
         IN  IF l.found
             THEN DuplicateEach(Tail(sel), snap,
                                DuplicateClip(trs, l.track, l.clip, id), id + 1)
             ELSE DuplicateEach(Tail(sel), snap, trs, id)

RECURSIVE FreezeEach(_, _, _, _, _)
FreezeEach(sel, snap, trs, time, id) ==
    IF sel = <<>> THEN [tracks |-> trs, nextId |-> id]
    ELSE LET l == LookupClip(snap, Head(sel).trackId, Head(sel).clipId)
         IN  IF l.found
             THEN FreezeEach(Tail(sel), snap,
                             FreezeClip(trs, l.track, l.clip, time, id),
                             time, id + 1)
             ELSE FreezeEach(Tail(sel), snap, trs, time, id)

RECURSIVE DeleteEach(_, _)
DeleteEach(sel, trs) ==
    IF sel = <<>> THEN trs
    ELSE DeleteEach(Tail(sel),
                    removeClipFromTrack(trs, Head(sel).trackId, Head(sel).clipId))

\* newStart < existingEnd && newEnd > existingStart
\* Overlaps, were the intervals closed
OverlapsClosed(newStart, newEnd, existingClip) ==
    newStart <= ClipEnd(existingClip) /\ newEnd >= existingClip.startTime

\* newClipStart < existingEnd && newClipEnd > existingStart
Overlaps(newStart, newEnd, existingClip) ==
    newStart < ClipEnd(existingClip) /\ newEnd > existingClip.startTime

\* hasOverlap of a media item dropped on track
MediaHasOverlap(track, snappedTime, newClipDuration) ==
    Some(track.clips, LAMBDA existingClip :
        Overlaps(snappedTime, snappedTime + newClipDuration, existingClip))

\* ClipHasOverlap, were the moving clip compared with itself as well
ClipHasOverlapWithSelf(track, fromTrackId, clipId, finalStartTime, movingClipDuration) ==
    Some(track.clips, LAMBDA existingClip :
        Overlaps(finalStartTime, finalStartTime + movingClipDuration, existingClip))

\* hasOverlap of a clip dropped on track
ClipHasOverlap(track, fromTrackId, clipId, finalStartTime, movingClipDuration) ==
    Some(track.clips, LAMBDA existingClip :
        IF fromTrackId = track.id /\ existingClip.id = clipId
        THEN FALSE
        ELSE Overlaps(finalStartTime, finalStartTime + movingClipDuration,
                      existingClip))

\* wouldOverlap of handleTrackDragOver for a timeline clip dragged over
\* track: the candidate starts at snappedTime, whatever the click offset
DragOverWouldOverlap(trs, track, fromTrackId, clipId, mouseX) ==
    LET snappedTime == SnappedTime(mouseX)
        moving == LookupClip(trs, fromTrackId, clipId)
    IN  IF ~moving.found
        THEN FALSE
        ELSE Some(track.clips, LAMBDA existingClip :
                 IF fromTrackId = track.id /\ existingClip.id = clipId
                 THEN FALSE
                 ELSE Overlaps(snappedTime,
                               snappedTime + EffectiveDuration(moving.clip),
                               existingClip))

\* hasOverlap of handleTrackDrop for the same drag: the drop is rejected
\* for overlap
DropRejectedForOverlap(trs, track, fromTrackId, clipId, mouseX, clickOffsetX) ==
    LET moving == LookupClip(trs, fromTrackId, clipId)
    IN  /\ moving.found
        /\ ClipHasOverlap(track, fromTrackId, clipId,
                          FinalStartTime(SnappedTime(mouseX), clickOffsetX),
                          EffectiveDuration(moving.clip))

\* IsCompatible, were every type to fit every track
IsCompatibleAlways(track, type) == TRUE

\* isCompatible of a media item of this type with track
IsCompatible(track, type) ==
    \/ track.type = "video" /\ (type = "video" \/ type = "image")
    \/ track.type = "audio" /\ type = "audio"

----------------------------------------------------------------------------
(* The Timeline component: its handlers as actions.  The store of these    *)
(* actions keeps no history: the operations of timeline-store.ts push none. *)

\* tracks becomes trs, and the effect on [tracks] sets the playback duration
SetTracks(trs) ==
    /\ tracks' = trs
    /\ duration' = IF trs = tracks THEN duration ELSE DurationEffect(trs)

Init ==
    /\ tracks = <<>>
    /\ selectedClips = <<>>
    /\ history = <<>>
    /\ redoStack = <<>>
    /\ currentTime = 0
    /\ duration = DurationEffect(<<>>)
    /\ frames = <<>>
    /\ toast = NoToast
    /\ nextTrackId = 1
    /\ nextClipId = 1

\* handleDrop: a media item dropped on the timeline outside every track
HandleDrop(drag) ==
    LET mediaItem == FindMedia(drag.id)
        trackType == IF drag.type = "audio" THEN "audio" ELSE "video"
    IN  IF ~mediaItem.found
        THEN /\ toast' = Message("error", "Media item not found")
             /\ UNCHANGED <<tracks, duration, nextTrackId, nextClipId>>
             /\ UNCHANGED <<selectedClips, history, redoStack, currentTime, frames>>
        ELSE /\ nextTrackId <= MaxTracks
             /\ nextClipId <= MaxClips
             /\ SetTracks(addClipToTrack(addTrack(tracks, trackType, nextTrackId),
                    nextTrackId,
                    [mediaId |-> mediaItem.value.id,
                     name |-> <<mediaItem.value.name>>,
                     duration |-> MediaClipDuration(mediaItem.value),
                     startTime |-> 0, trimStart |-> 0, trimEnd |-> 0],
                    nextClipId))
             /\ nextTrackId' = nextTrackId + 1
             /\ nextClipId' = nextClipId + 1
             /\ toast' = Message("success", "Added to new track")
             /\ UNCHANGED <<selectedClips, history, redoStack, currentTime, frames>>

\* handleTrackDrop with a media item, on the track at index i
HandleTrackDropMedia(i, drag, mouseX) ==
    LET track == tracks[i]
        snappedTime == SnappedTime(mouseX)
        mediaItem == FindMedia(drag.id)
    IN  /\ UNCHANGED <<selectedClips, history, redoStack, currentTime, frames,
                       nextTrackId>>
        /\ IF ~mediaItem.found
           THEN /\ toast' = Message("error", "Media item not found")
                /\ UNCHANGED <<tracks, duration, nextClipId>>
           ELSE IF ~IsCompatible(track, drag.type)
           THEN /\ toast' = Message("error", "Cannot add to track")
                /\ UNCHANGED <<tracks, duration, nextClipId>>
           ELSE IF MediaHasOverlap(track, snappedTime,
                                   MediaClipDuration(mediaItem.value))
           THEN /\ toast' = Message("error", "Cannot place clip here")
                /\ UNCHANGED <<tracks, duration, nextClipId>>
           ELSE /\ nextClipId <= MaxClips
                /\ SetTracks(addClipToTrack(tracks, track.id,
                       [mediaId |-> mediaItem.value.id,
                        name |-> <<mediaItem.value.name>>,
                        duration |-> MediaClipDuration(mediaItem.value),
                        startTime |-> snappedTime,
                        trimStart |-> 0, trimEnd |-> 0],
                       nextClipId))
                /\ nextClipId' = nextClipId + 1
                /\ toast' = Message("success", "Added to track")

\* the callbacks requestAnimationFrame may hold at once
MaxFrames == 1

\* handleTrackDrop with a timeline clip, on the track at index i
HandleTrackDropClip(i, fromTrackId, clipId, mouseX, clickOffsetX) ==
    LET track == tracks[i]
        snappedTime == SnappedTime(mouseX)
        moving == LookupClip(tracks, fromTrackId, clipId)
        finalStartTime == FinalStartTime(snappedTime, clickOffsetX)
    IN  /\ UNCHANGED <<selectedClips, history, redoStack, currentTime, nextTrackId, nextClipId>>
        /\ IF ~moving.found
           THEN /\ toast' = Message("error", "Clip not found")
                /\ UNCHANGED <<tracks, duration, frames>>
           ELSE IF ClipHasOverlap(track, fromTrackId, clipId, finalStartTime,
                                  EffectiveDuration(moving.clip))
           THEN /\ toast' = Message("error", "Cannot move clip here")
                /\ UNCHANGED <<tracks, duration, frames>>
           ELSE IF fromTrackId = track.id
           THEN /\ SetTracks(updateClipStartTime(tracks, track.id, clipId,
                                                 finalStartTime))
                /\ UNCHANGED <<frames, toast>>
           ELSE /\ Len(frames) < MaxFrames
                /\ SetTracks(moveClipToTrack(tracks, fromTrackId, track.id, clipId))
                /\ frames' = Append(frames,
                       [trackId |-> track.id, clipId |-> clipId,
                        startTime |-> finalStartTime])
                /\ UNCHANGED toast

\* the callback handleTrackDrop queued: updateClipStartTime at the destination
AnimationFrame ==
    /\ frames /= <<>>
    /\ SetTracks(updateClipStartTime(tracks, Head(frames).trackId,
                                     Head(frames).clipId, Head(frames).startTime))
    /\ frames' = Tail(frames)
    /\ UNCHANGED <<selectedClips, history, redoStack, currentTime, toast, nextTrackId, nextClipId>>

\* the toolbar's split button
HandleSplitSelected ==
    IF Len(selectedClips) = 0
    THEN /\ toast' = Message("error", "No clips selected")
         /\ UNCHANGED <<tracks, selectedClips, history, redoStack, currentTime,
                        duration, frames, nextTrackId, nextClipId>>
    ELSE LET r == SplitEach(selectedClips, tracks, tracks, currentTime, nextClipId)
         IN  /\ r.nextId <= MaxClips + 1
             /\ SetTracks(r.tracks)
             /\ nextClipId' = r.nextId
             /\ toast' = Message("success", "Split selected clip(s)")
             /\ UNCHANGED <<selectedClips, history, redoStack, currentTime, frames,
                            nextTrackId>>

\* the toolbar's duplicate button
HandleDuplicateSelected ==
    IF Len(selectedClips) = 0
    THEN /\ toast' = Message("error", "No clips selected")
         /\ UNCHANGED <<tracks, selectedClips, history, redoStack, currentTime,
                        duration, frames, nextTrackId, nextClipId>>
    ELSE LET r == DuplicateEach(selectedClips, tracks, tracks, nextClipId)
         IN  /\ r.nextId <= MaxClips + 1
             /\ SetTracks(r.tracks)
             /\ nextClipId' = r.nextId
             /\ toast' = Message("success", "Duplicated selected clip(s)")
             /\ UNCHANGED <<selectedClips, history, redoStack, currentTime, frames,
                            nextTrackId>>

\* the toolbar's freeze button
HandleFreezeSelected ==
    IF Len(selectedClips) = 0
    THEN /\ toast' = Message("error", "No clips selected")
         /\ UNCHANGED <<tracks, selectedClips, history, redoStack, currentTime,
                        duration, frames, nextTrackId, nextClipId>>
    ELSE LET r == FreezeEach(selectedClips, tracks, tracks, currentTime, nextClipId)
         IN  /\ r.nextId <= MaxClips + 1
             /\ SetTracks(r.tracks)
             /\ nextClipId' = r.nextId
             /\ toast' = Message("success", "Freeze frame added for selected clip(s)")
             /\ UNCHANGED <<selectedClips, history, redoStack, currentTime, frames,
                            nextTrackId>>

\* the toolbar's delete button
HandleDeleteSelected ==
    IF Len(selectedClips) = 0
    THEN /\ toast' = Message("error", "No clips selected")
         /\ UNCHANGED <<tracks, selectedClips, history, redoStack, currentTime,
                        duration, frames, nextTrackId, nextClipId>>
    ELSE /\ SetTracks(DeleteEach(selectedClips, tracks))
         /\ selectedClips' = clearSelectedClips(selectedClips)
         /\ toast' = Message("success", "Deleted selected clip(s)")
         /\ UNCHANGED <<history, redoStack, currentTime, frames, nextTrackId, nextClipId>>

\* the Delete or Backspace key
HandleKeyDown ==
    /\ Len(selectedClips) > 0
    /\ SetTracks(DeleteEach(selectedClips, tracks))
    /\ selectedClips' = clearSelectedClips(selectedClips)
    /\ UNCHANGED <<history, redoStack, currentTime, frames, toast, nextTrackId, nextClipId>>

\* the clip context menu's "Split at Playhead"
ContextSplit(trackId, clipId) ==
    LET l == LookupClip(tracks, trackId, clipId)
    IN  /\ UNCHANGED <<selectedClips, history, redoStack, currentTime, frames,
                       nextTrackId>>
        /\ IF ~l.found
           THEN UNCHANGED <<tracks, duration, toast, nextClipId>>
           ELSE IF PlayheadInside(l.clip, currentTime)
           THEN /\ nextClipId <= MaxClips
                /\ SetTracks(SplitClip(tracks, l.track, l.clip, currentTime, nextClipId))
                /\ nextClipId' = nextClipId + 1
                /\ toast' = Message("success", "Clip split successfully")
           ELSE /\ toast' = Message("error", "Playhead must be within clip to split")
                /\ UNCHANGED <<tracks, duration, nextClipId>>

\* the clip context menu's "Duplicate Clip"
ContextDuplicate(trackId, clipId) ==
    LET l == LookupClip(tracks, trackId, clipId)
    IN  /\ UNCHANGED <<selectedClips, history, redoStack, currentTime, frames,
                       nextTrackId>>
        /\ IF ~l.found
           THEN UNCHANGED <<tracks, duration, toast, nextClipId>>
           ELSE /\ nextClipId <= MaxClips
                /\ SetTracks(DuplicateClip(tracks, l.track, l.clip, nextClipId))
                /\ nextClipId' = nextClipId + 1
                /\ toast' = Message("success", "Clip duplicated")

\* the clip context menu's "Delete Clip"
ContextDeleteClip(trackId, clipId) ==
    /\ SetTracks(removeClipFromTrack(tracks, trackId, clipId))
    /\ toast' = Message("success", "Clip deleted")
    /\ UNCHANGED <<selectedClips, history, redoStack, currentTime, frames, nextTrackId, nextClipId>>

\* the track context menu's "Delete Track"
ContextDeleteTrack(trackId) ==
    /\ SetTracks(removeTrack(tracks, trackId))
    /\ toast' = Message("success", "Track deleted")
    /\ UNCHANGED <<selectedClips, history, redoStack, currentTime, frames, nextTrackId, nextClipId>>

\* handleClipMouseDown on the clip at index j of the track at index i
HandleClipMouseDown(i, j, modifier) ==
    LET track == tracks[i]
        clip == track.clips[j]
        sel == IF modifier
               THEN selectClip(selectedClips, track.id, clip.id, TRUE)
               ELSE IF ~IsSelected(selectedClips, track.id, clip.id)
               THEN selectClip(selectedClips, track.id, clip.id, FALSE)
               ELSE selectedClips
    IN  /\ selectedClips' = sel
        /\ UNCHANGED <<tracks, history, redoStack, currentTime, duration, frames,
                       toast, nextTrackId, nextClipId>>

\* handleClipClick on the clip at index j of the track at index i
HandleClipClick(i, j, modifier) ==
    LET track == tracks[i]
        clip == track.clips[j]
    IN  /\ selectedClips' =
               IF IsSelected(selectedClips, track.id, clip.id) /\ ~modifier
               THEN deselectClip(selectedClips, track.id, clip.id)
               ELSE selectedClips
        /\ UNCHANGED <<tracks, history, redoStack, currentTime, duration, frames,
                       toast, nextTrackId, nextClipId>>

\* handleSeekToPosition: a click on the ruler
HandleSeekToPosition(clickX) ==
    /\ currentTime' = ClampedTime(clickX, duration)
    /\ UNCHANGED <<tracks, selectedClips, history, redoStack, duration, frames,
                   toast, nextTrackId, nextClipId>>

\* handleTimelineAreaClick: a click on the timeline's background
HandleTimelineAreaClick(clickX) ==
    /\ selectedClips' = clearSelectedClips(selectedClips)
    /\ currentTime' = ClampedTime(clickX, duration)
    /\ UNCHANGED <<tracks, history, redoStack, duration, frames, toast, nextTrackId, nextClipId>>

\* timelineRef of Timeline(): useRef<HTMLDivElement>(null), which no element
\* of the component is given as its ref, so that its current stays null
TimelineRefCurrent == "null"

\* handleScrub: the playhead dragged to x; if (!timeline) return
HandleScrub(x) ==
    /\ currentTime' = IF TimelineRefCurrent = "null"
                      THEN currentTime
                      ELSE ClampedTime(x, duration)
    /\ UNCHANGED <<tracks, selectedClips, history, redoStack, duration, frames,
                   toast, nextTrackId, nextClipId>>

Next ==
    \/ \E drag \in MediaDrags : HandleDrop(drag)
    \/ \E i \in 1..Len(tracks), drag \in MediaDrags, mouseX \in MouseXs :
           HandleTrackDropMedia(i, drag, mouseX)
    \/ \E i \in 1..Len(tracks), from \in ClipTargets(tracks),
          mouseX \in MouseXs, clickOffsetX \in ClickOffsetXs :
           HandleTrackDropClip(i, from.trackId, from.clipId, mouseX, clickOffsetX)
    \/ AnimationFrame
    \/ HandleSplitSelected
    \/ HandleDuplicateSelected
    \/ HandleFreezeSelected
    \/ HandleDeleteSelected
    \/ HandleKeyDown
    \/ \E t \in ClipTargets(tracks) : ContextSplit(t.trackId, t.clipId)
    \/ \E t \in ClipTargets(tracks) : ContextDuplicate(t.trackId, t.clipId)
    \/ \E t \in ClipTargets(tracks) : ContextDeleteClip(t.trackId, t.clipId)
    \/ \E trackId \in TrackTargets(tracks) : ContextDeleteTrack(trackId)
    \/ \E i \in 1..Len(tracks) : \E j \in 1..Len(tracks[i].clips),
          modifier \in BOOLEAN :
           /\ HandleClipMouseDown(i, j, modifier)
           /\ Len(selectedClips') <= MaxSelected
    \/ \E i \in 1..Len(tracks) : \E j \in 1..Len(tracks[i].clips),
          modifier \in BOOLEAN : HandleClipClick(i, j, modifier)
    \/ \E clickX \in SeekXs : HandleSeekToPosition(clickX)
    \/ \E clickX \in SeekXs : HandleTimelineAreaClick(clickX)
    \/ \E x \in SeekXs : HandleScrub(x)

Spec == Init /\ [][Next]_vars

----------------------------------------------------------------------------
(* The store called directly: useTimelineStore's operations as actions,    *)
(* with the arguments a caller may pass them.                              *)

\* the start times a caller hands to the store
StartTimes == {0, 10}

\* the types a caller hands to addTrack
AddedTypes == {"video", "audio"}

\* where a caller of the store puts the playhead
StoreSeekXs == {0, 50}

\* the clipData a caller hands to addClipToTrack
ClipSpecs ==
    { [mediaId |-> "vid", name |-> <<"vid">>, duration |-> 20,
       startTime |-> st, trimStart |-> ts, trimEnd |-> 0] :
      st \in StartTimes, ts \in {0, 5} }

\* the trims a caller hands to updateClipTrim
TrimValues == {0, 10}

\* set(...) of the store with the tracks an operation computed
StoreCall(trs) ==
    /\ SetTracks(trs)
    /\ UNCHANGED <<selectedClips, currentTime, frames, toast>>

AddTrack(type) ==
    /\ nextTrackId <= MaxTracks
    /\ StoreCall(addTrack(tracks, type, nextTrackId))
    /\ nextTrackId' = nextTrackId + 1
    /\ UNCHANGED nextClipId

RemoveTrack(trackId) ==
    /\ StoreCall(removeTrack(tracks, trackId))
    /\ UNCHANGED <<nextTrackId, nextClipId>>

AddClipToTrack(trackId, clipData) ==
    /\ nextClipId <= MaxClips
    /\ StoreCall(addClipToTrack(tracks, trackId, clipData, nextClipId))
    /\ nextClipId' = nextClipId + 1
    /\ UNCHANGED nextTrackId

RemoveClipFromTrack(trackId, clipId) ==
    /\ StoreCall(removeClipFromTrack(tracks, trackId, clipId))
    /\ UNCHANGED <<nextTrackId, nextClipId>>

MoveClipToTrack(fromTrackId, toTrackId, clipId) ==
    /\ StoreCall(moveClipToTrack(tracks, fromTrackId, toTrackId, clipId))
    /\ UNCHANGED <<nextTrackId, nextClipId>>

UpdateClipTrim(trackId, clipId, trimStart, trimEnd) ==
    /\ StoreCall(updateClipTrim(tracks, trackId, clipId, trimStart, trimEnd))
    /\ UNCHANGED <<nextTrackId, nextClipId>>

UpdateClipStartTime(trackId, clipId, startTime) ==
    /\ StoreCall(updateClipStartTime(tracks, trackId, clipId, startTime))
    /\ UNCHANGED <<nextTrackId, nextClipId>>

ToggleTrackMute(trackId) ==
    /\ StoreCall(toggleTrackMute(tracks, trackId))
    /\ UNCHANGED <<nextTrackId, nextClipId>>

ToggleClipMute(trackId, clipId) ==
    /\ StoreCall(toggleClipMute(tracks, trackId, clipId))
    /\ UNCHANGED <<nextTrackId, nextClipId>>

\* a call of the store of timeline-store.ts, which keeps no history
Plain(A) == A /\ UNCHANGED <<history, redoStack>>

\* the operations of the store, in any order
NextStore ==
    \/ \E type \in AddedTypes : Plain(AddTrack(type))
    \/ \E trackId \in TrackTargets(tracks) : Plain(RemoveTrack(trackId))
    \/ \E trackId \in TrackTargets(tracks), clipData \in ClipSpecs :
           Plain(AddClipToTrack(trackId, clipData))
    \/ \E t \in ClipTargets(tracks) : Plain(RemoveClipFromTrack(t.trackId, t.clipId))
    \/ \E t \in ClipTargets(tracks), toTrackId \in TrackTargets(tracks) :
           Plain(MoveClipToTrack(t.trackId, toTrackId, t.clipId))
    \/ \E t \in ClipTargets(tracks), trimStart \in TrimValues, trimEnd \in TrimValues :
           Plain(UpdateClipTrim(t.trackId, t.clipId, trimStart, trimEnd))
    \/ \E t \in ClipTargets(tracks), startTime \in StartTimes :
           Plain(UpdateClipStartTime(t.trackId, t.clipId, startTime))
    \/ \E trackId \in TrackTargets(tracks) : Plain(ToggleTrackMute(trackId))
    \/ \E t \in ClipTargets(tracks) : Plain(ToggleClipMute(t.trackId, t.clipId))

SpecStore == Init /\ [][NextStore]_vars

\* clips added and trimmed through the store, then split, duplicated and
\* frozen by the handlers of the Timeline component
NextEdit ==
    \/ \E type \in AddedTypes : Plain(AddTrack(type))
    \/ \E trackId \in TrackTargets(tracks), clipData \in ClipSpecs :
           Plain(AddClipToTrack(trackId, clipData))
    \/ \E t \in ClipTargets(tracks), trimStart \in TrimValues, trimEnd \in TrimValues :
           Plain(UpdateClipTrim(t.trackId, t.clipId, trimStart, trimEnd))
    \/ \E t \in ClipTargets(tracks) : ContextSplit(t.trackId, t.clipId)
    \/ \E t \in ClipTargets(tracks) : ContextDuplicate(t.trackId, t.clipId)
    \/ \E i \in 1..Len(tracks) : \E j \in 1..Len(tracks[i].clips) :
           /\ HandleClipMouseDown(i, j, FALSE)
           /\ Len(selectedClips') <= MaxSelected
    \/ HandleFreezeSelected
    \/ \E clickX \in StoreSeekXs : HandleSeekToPosition(clickX)

SpecEdit == Init /\ [][NextEdit]_vars

----------------------------------------------------------------------------
(* The store with the History Manager: every mutating operation pushes the *)
(* tracks it found, and undo and redo move between the snapshots.          *)

StoreState == [tracks |-> tracks, history |-> history, redoStack |-> redoStack]

\* a mutating operation of the store, recorded by the History Manager
Recorded(A) ==
    /\ Len(history) < MaxHistory
    /\ A
    /\ history' = pushHistory(StoreState, tracks').history
    /\ redoStack' = pushHistory(StoreState, tracks').redoStack

Undo ==
    /\ SetTracks(undo(StoreState).tracks)
    /\ history' = undo(StoreState).history
    /\ redoStack' = undo(StoreState).redoStack
    /\ UNCHANGED <<selectedClips, currentTime, frames, toast, nextTrackId, nextClipId>>

Redo ==
    /\ SetTracks(redo(StoreState).tracks)
    /\ history' = redo(StoreState).history
    /\ redoStack' = redo(StoreState).redoStack
    /\ UNCHANGED <<selectedClips, currentTime, frames, toast, nextTrackId, nextClipId>>

NextHistory ==
    \/ \E type \in AddedTypes : Recorded(AddTrack(type))
    \/ \E trackId \in TrackTargets(tracks) : Recorded(RemoveTrack(trackId))
    \/ \E trackId \in TrackTargets(tracks), clipData \in ClipSpecs :
           Recorded(AddClipToTrack(trackId, clipData))
    \/ \E t \in ClipTargets(tracks) : Recorded(RemoveClipFromTrack(t.trackId, t.clipId))
    \/ \E t \in ClipTargets(tracks), toTrackId \in TrackTargets(tracks) :
           Recorded(MoveClipToTrack(t.trackId, toTrackId, t.clipId))
    \/ \E t \in ClipTargets(tracks), trimStart \in TrimValues, trimEnd \in TrimValues :
           Recorded(UpdateClipTrim(t.trackId, t.clipId, trimStart, trimEnd))
    \/ \E t \in ClipTargets(tracks), startTime \in StartTimes :
           Recorded(UpdateClipStartTime(t.trackId, t.clipId, startTime))
    \/ \E trackId \in TrackTargets(tracks) : Recorded(ToggleTrackMute(trackId))
    \/ \E t \in ClipTargets(tracks) : Recorded(ToggleClipMute(t.trackId, t.clipId))
    \/ Undo
    \/ Redo

SpecHistory == Init /\ [][NextHistory]_vars

----------------------------------------------------------------------------
(* The selection as the Timeline component drives it: clicks on clips, the *)
(* marquee, and clicks on the background.                                  *)

\* the height of a track row and the width of the box a clip is hit in
TrackRowHeight == 60

ClipHitWidth == 60

\* the least size of a marquee that selects
MarqueeMinSize == 5

\* rect.width and rect.height of the element of timelineRef
RectWidth == 1000

RectHeight == 200

\* const clamp = (val, min, max) => Math.max(min, Math.min(max, val))
Clamp(val, min, max) == Max(min, Min(max, val))

\* the corners of a marquee, relative to rect: x1 <= x2 and y1 <= y2
MarqueeBoxes ==
    { [x1 |-> 0, x2 |-> 3, y1 |-> 0, y2 |-> 50],
      [x1 |-> 0, x2 |-> 40, y1 |-> 10, y2 |-> 50],
      [x1 |-> 0, x2 |-> 2000, y1 |-> 0, y2 |-> 400] }

\* the test of the marquee end effect on one clip of the track at index
\* trackIdx, counted from 0
InMarquee(clip, trackIdx, bx1, bx2, by1, by2) ==
    LET clipLeft == clip.startTime * PixelsPerTick
        clipTop == trackIdx * TrackRowHeight
        clipBottom == clipTop + TrackRowHeight
        clipRight == clipLeft + ClipHitWidth
    IN  bx1 < clipRight /\ bx2 > clipLeft /\ by1 < clipBottom /\ by2 > clipTop

\* newSelection: the pairs pushed by tracks.forEach over the first n tracks
RECURSIVE MarqueeSelection(_, _, _, _, _, _)
MarqueeSelection(trs, n, bx1, bx2, by1, by2) ==
    IF n = 0 THEN <<>>
    ELSE MarqueeSelection(trs, n - 1, bx1, bx2, by1, by2)
         \o MapSeq(FilterSeq(trs[n].clips, LAMBDA clip :
                       InMarquee(clip, n - 1, bx1, bx2, by1, by2)),
                   LAMBDA clip : [trackId |-> trs[n].id, clipId |-> clip.id])

\* the effect that runs when the marquee ends
HandleMarqueeEnd(box, additive) ==
    LET bx1 == Clamp(box.x1, 0, RectWidth)
        bx2 == Clamp(box.x2, 0, RectWidth)
        by1 == Clamp(box.y1, 0, RectHeight)
        by2 == Clamp(box.y2, 0, RectHeight)
        newSelection == MarqueeSelection(tracks, Len(tracks), bx1, bx2, by1, by2)
    IN  /\ selectedClips' =
               IF TimelineRefCurrent = "null"
               THEN selectedClips
               ELSE IF box.x2 - box.x1 < MarqueeMinSize
                       \/ box.y2 - box.y1 < MarqueeMinSize
               THEN selectedClips
               ELSE IF Len(newSelection) > 0
               THEN setSelectedClips(selectedClips,
                        IF additive
                        THEN selectedClips \o FilterSeq(newSelection, LAMBDA c :
                                 ~IsSelected(selectedClips, c.trackId, c.clipId))
                        ELSE newSelection)
               ELSE IF ~additive
               THEN clearSelectedClips(selectedClips)
               ELSE selectedClips
        /\ UNCHANGED <<tracks, history, redoStack, currentTime, duration, frames,
                       toast, nextTrackId, nextClipId>>

NextSelection ==
    \/ \E type \in AddedTypes : Plain(AddTrack(type))
    \/ \E trackId \in TrackTargets(tracks), clipData \in ClipSpecs :
           Plain(AddClipToTrack(trackId, clipData))
    \/ \E i \in 1..Len(tracks) : \E j \in 1..Len(tracks[i].clips),
          modifier \in BOOLEAN : HandleClipMouseDown(i, j, modifier)
    \/ \E i \in 1..Len(tracks) : \E j \in 1..Len(tracks[i].clips),
          modifier \in BOOLEAN : HandleClipClick(i, j, modifier)
    \/ \E box \in MarqueeBoxes, additive \in BOOLEAN : HandleMarqueeEnd(box, additive)
    \/ \E clickX \in StoreSeekXs : HandleTimelineAreaClick(clickX)

SpecSelection == Init /\ [][NextSelection]_vars

----------------------------------------------------------------------------
(* The selection of the store of timeline-store.ts: one selectedClip or    *)
(* none, held here as a list of at most one pair.                          *)

\* selectClip: (trackId, clipId) => set({ selectedClip: { trackId, clipId } });
\* a third argument, as the Timeline component passes, is not read
selectClipOfStore(sel, trackId, clipId, additive) ==
    << [trackId |-> trackId, clipId |-> clipId] >>

\* clearSelectedClip: () => set({ selectedClip: null })
clearSelectedClip(sel) == <<>>

SelectClip(trackId, clipId, additive) ==
    /\ selectedClips' = selectClipOfStore(selectedClips, trackId, clipId, additive)
    /\ UNCHANGED <<tracks, history, redoStack, currentTime, duration, frames,
                   toast, nextTrackId, nextClipId>>

ClearSelectedClip ==
    /\ selectedClips' = clearSelectedClip(selectedClips)
    /\ UNCHANGED <<tracks, history, redoStack, currentTime, duration, frames,
                   toast, nextTrackId, nextClipId>>

NextSelect ==
    \/ \E type \in AddedTypes : Plain(AddTrack(type))
    \/ \E trackId \in TrackTargets(tracks), clipData \in ClipSpecs :
           Plain(AddClipToTrack(trackId, clipData))
    \/ \E t \in ClipTargets(tracks), additive \in BOOLEAN :
           SelectClip(t.trackId, t.clipId, additive)
    \/ ClearSelectedClip

SpecSelect == Init /\ [][NextSelect]_vars

----------------------------------------------------------------------------
(* What the properties below speak of *)

\* the half-open span [SpanStart, SpanEnd) a clip occupies on its track
SpanStart(clip) == clip.startTime

SpanEnd(clip) == clip.startTime + clip.duration - clip.trimStart - clip.trimEnd

\* the clip a handler added to the track of this id: the last of its clips
AddedClip(trs, trackId) ==
    LET track == Find(trs, LAMBDA t : t.id = trackId).value
    IN  track.clips[Len(track.clips)]

ClipCount(trs, trackId) ==
    Len(Find(trs, LAMBDA t : t.id = trackId).value.clips)

\* some clip of trs carries this suffix last in its name
SomeClipNamed(trs, suffix) ==
    \E i \in 1..Len(trs) : \E j \in 1..Len(trs[i].clips) :
        LET name == trs[i].clips[j].name IN name[Len(name)] = suffix

\* the playhead is not strictly inside the span of the clip
PlayheadOutside(clip, time) == time <= SpanStart(clip) \/ time >= SpanEnd(clip)

\* this step is a split of the clip requested from the context menu or,
\* with the clip as the selection, from the toolbar
SplitRequested(trackId, clipId) ==
    \/ ContextSplit(trackId, clipId)
    \/ /\ selectedClips = << [trackId |-> trackId, clipId |-> clipId] >>
       /\ HandleSplitSelected

\* this step is a duplication of the clip, from the context menu or the toolbar
DuplicateRequested(trackId, clipId) ==
    \/ ContextDuplicate(trackId, clipId)
    \/ /\ selectedClips = << [trackId |-> trackId, clipId |-> clipId] >>
       /\ HandleDuplicateSelected

\* this step is a freeze frame of the clip, the selection, from the toolbar
FreezeRequested(trackId, clipId) ==
    /\ selectedClips = << [trackId |-> trackId, clipId |-> clipId] >>
    /\ HandleFreezeSelected

----------------------------------------------------------------------------
(* C1: no two distinct clips of one track have intersecting half-open      *)
(* spans, after any sequence of committed operations of the timeline       *)
(* component (no reposition of a dropped clip is still queued).            *)
C1_NoOverlapOnTrack ==
    frames = <<>> =>
    \A i \in 1..Len(tracks) :
        \A j, k \in 1..Len(tracks[i].clips) :
            j /= k =>
                ~(/\ SpanStart(tracks[i].clips[j]) < SpanEnd(tracks[i].clips[k])
                  /\ SpanEnd(tracks[i].clips[j]) > SpanStart(tracks[i].clips[k]))

(* C3: a split of a clip with span [s, e) at a time T with s < T < e       *)
(* leaves two clips whose spans are [s, T) and [T, e); and when e was the  *)
(* total duration, the total duration is what it was.                      *)
C3_SplitCoversSpan ==
    [][\A t \in ClipTargets(tracks) :
        LET l == LookupClip(tracks, t.trackId, t.clipId)
        IN  (/\ l.found
             /\ ~PlayheadOutside(l.clip, currentTime)
             /\ SplitRequested(t.trackId, t.clipId))
            => LET first == LookupClip(tracks', t.trackId, t.clipId).clip
                   second == AddedClip(tracks', t.trackId)
               IN  /\ ClipCount(tracks', t.trackId) = ClipCount(tracks, t.trackId) + 1
                   /\ SpanStart(first) = SpanStart(l.clip)
                   /\ SpanEnd(first) = currentTime
                   /\ SpanStart(second) = currentTime
                   /\ SpanEnd(second) = SpanEnd(l.clip)
                   /\ (SpanEnd(l.clip) = getTotalDuration(tracks)
                          => getTotalDuration(tracks') = getTotalDuration(tracks))
      ]_vars

(* C4: after a split of a clip (s, ts, te, d) at T, the clip keeps s and   *)
(* ts and ends at T, and the clip added has startTime T, trimStart         *)
(* ts + (T - s), trimEnd te, duration d and the same mediaId.              *)
C4_SplitFields ==
    [][\A t \in ClipTargets(tracks) :
        LET l == LookupClip(tracks, t.trackId, t.clipId)
        IN  (/\ l.found
             /\ ~PlayheadOutside(l.clip, currentTime)
             /\ SplitRequested(t.trackId, t.clipId))
            => LET first == LookupClip(tracks', t.trackId, t.clipId).clip
                   second == AddedClip(tracks', t.trackId)
               IN  /\ first.startTime = l.clip.startTime
                   /\ first.trimStart = l.clip.trimStart
                   /\ SpanEnd(first) = currentTime
                   /\ second.startTime = currentTime
                   /\ second.trimStart =
                          l.clip.trimStart + (currentTime - l.clip.startTime)
                   /\ second.trimEnd = l.clip.trimEnd
                   /\ second.duration = l.clip.duration
                   /\ second.mediaId = l.clip.mediaId
      ]_vars

(* C5: a split requested while the playhead is not strictly inside the     *)
(* clip, from the context menu or the toolbar, leaves tracks as they were. *)
C5_SplitOutsideNoMutation ==
    [][\A t \in ClipTargets(tracks) :
        LET l == LookupClip(tracks, t.trackId, t.clipId)
        IN  (/\ l.found
             /\ PlayheadOutside(l.clip, currentTime)
             /\ SplitRequested(t.trackId, t.clipId))
            => tracks' = tracks
      ]_vars

\* a split was refused: a clip lies off the playhead, nothing was ever split
\* and the last notice is an error
C5_Witness ==
    /\ toast = "error"
    /\ ~SomeClipNamed(tracks, "(split)")
    /\ \E t \in ClipTargets(tracks) :
           LET l == LookupClip(tracks, t.trackId, t.clipId)
           IN  l.found /\ PlayheadOutside(l.clip, currentTime)
                       /\ currentTime >= SpanEnd(l.clip)

(* C6: a split requested while the playhead is outside the clip is         *)
(* reported as an error, never as a success, on both paths.                *)
C6_SplitOutsideReported ==
    [][\A t \in ClipTargets(tracks) :
        LET l == LookupClip(tracks, t.trackId, t.clipId)
        IN  (/\ l.found
             /\ PlayheadOutside(l.clip, currentTime)
             /\ SplitRequested(t.trackId, t.clipId))
            => toast' = "error"
      ]_vars

(* C8: the clip a duplication adds starts strictly after the end of the    *)
(* span of the original, whose effective duration is positive, and so      *)
(* does not overlap the original.                                          *)
C8_DuplicateAfterOriginal ==
    [][\A t \in ClipTargets(tracks) :
        LET l == LookupClip(tracks, t.trackId, t.clipId)
        IN  (/\ l.found
             /\ SpanEnd(l.clip) > SpanStart(l.clip)
             /\ DuplicateRequested(t.trackId, t.clipId))
            => LET original == LookupClip(tracks', t.trackId, t.clipId).clip
                   copy == AddedClip(tracks', t.trackId)
               IN  /\ ClipCount(tracks', t.trackId) = ClipCount(tracks, t.trackId) + 1
                   /\ copy.id /= original.id
                   /\ SpanStart(copy) > SpanEnd(l.clip)
                   /\ ~(/\ SpanStart(copy) < SpanEnd(original)
                        /\ SpanEnd(copy) > SpanStart(original))
      ]_vars

\* a copy lies on a track behind the clip it was made of
C8_Witness ==
    \E i \in 1..Len(tracks) : \E j, k \in 1..Len(tracks[i].clips) :
        LET original == tracks[i].clips[j]
            copy == tracks[i].clips[k]
        IN  /\ copy.name = Append(original.name, "(copy)")
            /\ SpanEnd(original) > SpanStart(original)
            /\ SpanStart(copy) > SpanEnd(original)

(* C9: a freeze frame of the selected clip adds one clip to its track,     *)
(* starting at the playhead, of the same media, whose effective duration   *)
(* is one second whatever the duration and the trims of the selected clip. *)
C9_FreezeOneSecond ==
    [][\A t \in ClipTargets(tracks) :
        LET l == LookupClip(tracks, t.trackId, t.clipId)
        IN  (l.found /\ FreezeRequested(t.trackId, t.clipId))
            => LET frozen == AddedClip(tracks', t.trackId)
               IN  /\ ClipCount(tracks', t.trackId) = ClipCount(tracks, t.trackId) + 1
                   /\ frozen.startTime = currentTime
                   /\ frozen.mediaId = l.clip.mediaId
                   /\ frozen.duration - frozen.trimStart - frozen.trimEnd
                          = TicksPerSecond
      ]_vars

\* a freeze frame of a trimmed clip, not itself one second long, was added
C9_Witness ==
    \E i \in 1..Len(tracks) : \E j, k \in 1..Len(tracks[i].clips) :
        LET source == tracks[i].clips[j]
            frozen == tracks[i].clips[k]
        IN  /\ frozen.name = Append(source.name, "(freeze)")
            /\ source.duration /= TicksPerSecond
            /\ source.trimStart > 0
            /\ frozen.startTime = currentTime
            /\ SpanEnd(frozen) - SpanStart(frozen) = TicksPerSecond

(* C2: every clip of every track has an effective duration, duration less  *)
(* trimStart less trimEnd, strictly greater than 0, after any sequence of  *)
(* store operations and of the split, duplicate and freeze composed of     *)
(* them.                                                                   *)
C2_EffectiveDurationPositive ==
    \A i \in 1..Len(tracks) : \A j \in 1..Len(tracks[i].clips) :
        LET clip == tracks[i].clips[j]
        IN  clip.duration - clip.trimStart - clip.trimEnd > 0

(* C7: duplicating a clip adds to its track one clip with the duration,    *)
(* trimStart, trimEnd and mediaId of the original, starting at the         *)
(* original's startTime plus its effective duration plus 0.1 s, and leaves *)
(* the original as it was.                                                 *)
C7_DuplicateFields ==
    [][\A t \in ClipTargets(tracks) :
        LET l == LookupClip(tracks, t.trackId, t.clipId)
        IN  (l.found /\ DuplicateRequested(t.trackId, t.clipId))
            => LET copy == AddedClip(tracks', t.trackId)
               IN  /\ ClipCount(tracks', t.trackId) = ClipCount(tracks, t.trackId) + 1
                   /\ copy.duration = l.clip.duration
                   /\ copy.trimStart = l.clip.trimStart
                   /\ copy.trimEnd = l.clip.trimEnd
                   /\ copy.mediaId = l.clip.mediaId
                   /\ copy.startTime = SpanEnd(l.clip) + DuplicateGap
                   /\ LookupClip(tracks', t.trackId, t.clipId).clip = l.clip
      ]_vars

(* C10: undo() right after a single mutating operation restores tracks     *)
(* equal to those before the operation, and redo() right after that undo   *)
(* restores tracks equal to those after the operation.                     *)
C10_UndoRedoRestore ==
    [][(Len(history') = Len(history) + 1 /\ redoStack' = <<>>)
       => LET post == [tracks |-> tracks', history |-> history',
                       redoStack |-> redoStack']
          IN  /\ undo(post).tracks = tracks
              /\ redo(undo(post)).tracks = tracks'
      ]_vars

\* an operation that changed the tracks has been undone and can be redone
C10_Witness ==
    /\ redoStack /= <<>>
    /\ redoStack[Len(redoStack)] /= tracks
    /\ redo(StoreState).tracks = redoStack[Len(redoStack)]
    /\ undo(redo(StoreState)).tracks = tracks

\* the ends of the spans of all clips of all tracks
AllSpanEnds(trs) ==
    UNION { { SpanEnd(trs[i].clips[j]) : j \in 1..Len(trs[i].clips) } :
            i \in 1..Len(trs) }

(* C11: getTotalDuration() is 0 when there are no tracks and otherwise the *)
(* greatest end, startTime + duration - trimStart - trimEnd, of the clips  *)
(* of all tracks, bounded below by 0; it is never negative.                *)
C11_TotalDuration ==
    LET total == getTotalDuration(tracks)
        ends == AllSpanEnds(tracks) \cup {0}
    IN  /\ tracks = <<>> => total = 0
        /\ total \in ends
        /\ \A e \in ends : total >= e
        /\ total >= 0

\* the total is the end of one clip while another clip ends before 0
C11_Witness ==
    /\ getTotalDuration(tracks) > 0
    /\ getTotalDuration(tracks) \in AllSpanEnds(tracks)
    /\ \E e \in AllSpanEnds(tracks) : e < 0
    /\ \E i \in 1..Len(tracks) : \E j \in 1..Len(tracks[i].clips) :
           tracks[i].clips[j].trimEnd > 0

(* C12: after every change of tracks the playback duration equals the      *)
(* greater of getTotalDuration() and 10 s: it is never less than 10 s, and *)
(* it is exactly 10 s for a timeline of zero tracks.                       *)
C12_DurationFloor ==
    LET floor == 10 * TicksPerSecond
        ends == AllSpanEnds(tracks) \cup {floor}
    IN  /\ duration \in ends
        /\ \A e \in ends : duration >= e
        /\ duration >= floor
        /\ Len(tracks) = 0 => duration = floor

\* the clips reach beyond 10 s, and the duration follows them
C12_Witness ==
    /\ tracks /= <<>>
    /\ duration > 10 * TicksPerSecond
    /\ duration \in AllSpanEnds(tracks)

\* the sequence s without its element at index j
WithoutIndex(s, j) == SubSeq(s, 1, j - 1) \o SubSeq(s, j + 1, Len(s))

(* C13: for distinct existing tracks A and B and a clip c of A,            *)
(* moveClipToTrack(A, B, c) followed by updateClipStartTime(B, c, t)       *)
(* leaves c absent from A, present exactly once in B with startTime t and  *)
(* its other fields unchanged, and every other clip of every track as it   *)
(* was.                                                                    *)
C13_MoveThenReposition ==
    \A a, b \in 1..Len(tracks) : \A t \in StartTimes :
        a /= b =>
        \A j \in 1..Len(tracks[a].clips) :
            LET c == tracks[a].clips[j]
                moved == moveClipToTrack(tracks, tracks[a].id, tracks[b].id, c.id)
                r == updateClipStartTime(moved, tracks[b].id, c.id, t)
                inB == { k \in 1..Len(r[b].clips) : r[b].clips[k].id = c.id }
            IN  /\ Len(r) = Len(tracks)
                /\ \A k \in 1..Len(r[a].clips) : r[a].clips[k].id /= c.id
                /\ r[a] = [tracks[a] EXCEPT !.clips = WithoutIndex(@, j)]
                /\ Cardinality(inB) = 1
                /\ \A k \in inB : r[b].clips[k] = [c EXCEPT !.startTime = t]
                /\ r[b] = [tracks[b] EXCEPT
                              !.clips = Append(@, [c EXCEPT !.startTime = t])]
                /\ \A k \in 1..Len(r) : (k /= a /\ k /= b) => r[k] = tracks[k]

\* a clip moved behind the clip of another track and repositioned there
C13_Witness ==
    \E a, b \in 1..Len(tracks) :
        /\ a /= b
        /\ tracks[a].clips = <<>>
        /\ Len(tracks[b].clips) = 2
        /\ tracks[b].clips[1].id > tracks[b].clips[2].id
        /\ tracks[b].clips[2].startTime /= tracks[b].clips[1].startTime

\* the ids a caller may hold: those the store gave out, and one it never did
AllTrackIds == 0..MaxTracks

AllClipIds == 0..MaxClips

\* no track of trs has this id
TrackMissing(trs, trackId) == ~Some(trs, LAMBDA track : track.id = trackId)

\* no track of trs with this id holds a clip with this id
ClipMissing(trs, trackId, clipId) == ~LookupClip(trs, trackId, clipId).found

(* C14: a primitive store operation called with the id of a track or of a  *)
(* clip that does not exist leaves tracks unchanged: removeTrack,          *)
(* addClipToTrack, removeClipFromTrack, updateClipTrim,                    *)
(* updateClipStartTime, toggleTrackMute and toggleClipMute with an unknown *)
(* id, and moveClipToTrack when the source track or the clip in it cannot  *)
(* be found.                                                               *)
C14_UnknownIdNoOp ==
    \A trackId \in AllTrackIds :
        /\ TrackMissing(tracks, trackId) =>
              /\ removeTrack(tracks, trackId) = tracks
              /\ toggleTrackMute(tracks, trackId) = tracks
              /\ \A clipData \in ClipSpecs :
                     addClipToTrack(tracks, trackId, clipData, nextClipId) = tracks
        /\ \A clipId \in AllClipIds :
              ClipMissing(tracks, trackId, clipId) =>
                  /\ removeClipFromTrack(tracks, trackId, clipId) = tracks
                  /\ updateClipStartTime(tracks, trackId, clipId, 10) = tracks
                  /\ toggleClipMute(tracks, trackId, clipId) = tracks
                  /\ \A trimStart \in TrimValues :
                         updateClipTrim(tracks, trackId, clipId, trimStart, 10) = tracks
                  /\ \A toTrackId \in AllTrackIds :
                         moveClipToTrack(tracks, trackId, toTrackId, clipId) = tracks

\* two clips, each in a track of its own: the id of a clip that exists, but
\* in another track than the one named with it
C14_Witness ==
    /\ Len(tracks) = 2
    /\ nextTrackId > MaxTracks
    /\ Len(tracks[1].clips) = 1
    /\ Len(tracks[2].clips) = 1
    /\ tracks[1].clips[1].startTime /= 10
    /\ ClipMissing(tracks, tracks[1].id, tracks[2].clips[1].id)
    /\ removeClipFromTrack(tracks, tracks[1].id, tracks[2].clips[1].id) = tracks

\* the ids of the clips of all tracks
AllClipIdsOf(trs) ==
    UNION { { trs[i].clips[j].id : j \in 1..Len(trs[i].clips) } : i \in 1..Len(trs) }

(* C15: addClipToTrack(trackId, clipSpec) on an existing track appends     *)
(* exactly one clip at the end of the clips of that track, with a fresh    *)
(* id, trimStart 0, trimEnd 0 and muted false whatever clipSpec holds,     *)
(* startTime that of clipSpec (0 when it is falsy), and the mediaId, name  *)
(* and duration of clipSpec; the clips there before and all other tracks   *)
(* are unchanged.                                                          *)
C15_AddClipAppends ==
    [][\A i \in 1..Len(tracks) : \A clipData \in ClipSpecs :
          AddClipToTrack(tracks[i].id, clipData)
          => /\ Len(tracks') = Len(tracks)
             /\ \A k \in 1..Len(tracks) : k /= i => tracks'[k] = tracks[k]
             /\ Len(tracks'[i].clips) = Len(tracks[i].clips) + 1
             /\ SubSeq(tracks'[i].clips, 1, Len(tracks[i].clips)) = tracks[i].clips
             /\ [tracks'[i] EXCEPT !.clips = tracks[i].clips] = tracks[i]
             /\ LET added == tracks'[i].clips[Len(tracks'[i].clips)]
                IN  /\ added.id \notin AllClipIdsOf(tracks)
                    /\ added.trimStart = 0
                    /\ added.trimEnd = 0
                    /\ added.muted = FALSE
                    /\ added.startTime = clipData.startTime
                    /\ added.mediaId = clipData.mediaId
                    /\ added.name = clipData.name
                    /\ added.duration = clipData.duration
      ]_vars

\* a clip added last to a track that held a clip, from a clipSpec with a
\* start time that is not falsy
C15_Witness ==
    \E i \in 1..Len(tracks) :
        /\ Len(tracks[i].clips) = 2
        /\ tracks[i].clips[2].id = nextClipId - 1
        /\ tracks[i].clips[2].id > tracks[i].clips[1].id
        /\ tracks[i].clips[2].startTime = 10
        /\ tracks[i].clips[2].trimStart = 0
        /\ tracks[i].clips[1].trimStart > 0

(* C16: removeTrack(id) removes the track with that id and all its clips   *)
(* with it, and leaves every other track, and the order of the tracks      *)
(* left, unchanged; removeTrack(id) again, or with an id that was never    *)
(* there, changes nothing.                                                 *)
C16_RemoveTrack ==
    [][\A trackId \in AllTrackIds :
          RemoveTrack(trackId)
          => /\ \A i \in 1..Len(tracks) :
                    tracks[i].id = trackId
                    => /\ tracks' = WithoutIndex(tracks, i)
                       /\ \A j \in 1..Len(tracks[i].clips) :
                              tracks[i].clips[j].id \notin AllClipIdsOf(tracks')
             /\ TrackMissing(tracks, trackId) => tracks' = tracks
             /\ TrackMissing(tracks', trackId)
             /\ removeTrack(tracks', trackId) = tracks'
      ]_vars

\* the first track was removed with its clip; the second is left, with its own
C16_Witness ==
    /\ Len(tracks) = 1
    /\ tracks[1].id = MaxTracks
    /\ Len(tracks[1].clips) = 1
    /\ nextClipId > MaxClips
    /\ removeTrack(tracks, 1) = tracks

\* the half-open interval [newStart, newEnd) meets the span of the clip
Intersects(newStart, newEnd, clip) ==
    newStart < SpanEnd(clip) /\ newEnd > SpanStart(clip)

\* a track holding clips over [0, 5 s) and [5 s, 8 s)
AbuttingTrack ==
    [id |-> 1, name |-> "Video Track", type |-> "video", muted |-> FALSE,
     clips |-> << [id |-> 1, mediaId |-> "vid", name |-> <<"vid">>, duration |-> 50,
                   startTime |-> 0, trimStart |-> 0, trimEnd |-> 0, muted |-> FALSE],
                  [id |-> 2, mediaId |-> "vid", name |-> <<"vid">>, duration |-> 30,
                   startTime |-> 50, trimStart |-> 0, trimEnd |-> 0, muted |-> FALSE] >>]

(* C17: a media item or a clip dropped on a track is rejected exactly when *)
(* the half-open interval of the candidate intersects the half-open span   *)
(* of some clip of that track (other than the clip being moved itself): a  *)
(* candidate that ends where a clip starts, or starts where one ends, is   *)
(* accepted, and a candidate over [3 s, 6 s) is flagged against both of    *)
(* the clips over [0, 5 s) and [5 s, 8 s).                                 *)
C17_DropRejectedIffIntersects ==
    [][/\ \A i \in 1..Len(tracks), drag \in MediaDrags, mouseX \in MouseXs :
             LET mediaItem == FindMedia(drag.id)
                 newStart == SnappedTime(mouseX)
                 newEnd == newStart + MediaClipDuration(mediaItem.value)
                 hit == \E j \in 1..Len(tracks[i].clips) :
                            Intersects(newStart, newEnd, tracks[i].clips[j])
             IN  (/\ mediaItem.found
                  /\ IsCompatible(tracks[i], drag.type)
                  /\ HandleTrackDropMedia(i, drag, mouseX))
                 => IF hit
                    THEN tracks' = tracks /\ toast' = "error"
                    ELSE /\ ClipCount(tracks', tracks[i].id) = Len(tracks[i].clips) + 1
                         /\ AddedClip(tracks', tracks[i].id).startTime = newStart
       /\ \A i \in 1..Len(tracks), from \in ClipTargets(tracks),
             mouseX \in MouseXs, clickOffsetX \in ClickOffsetXs :
             LET moving == LookupClip(tracks, from.trackId, from.clipId)
                 newStart == FinalStartTime(SnappedTime(mouseX), clickOffsetX)
                 newEnd == newStart + (SpanEnd(moving.clip) - SpanStart(moving.clip))
                 hit == \E j \in 1..Len(tracks[i].clips) :
                            /\ tracks[i].clips[j].id /= from.clipId
                            /\ Intersects(newStart, newEnd, tracks[i].clips[j])
             IN  (/\ moving.found
                  /\ HandleTrackDropClip(i, from.trackId, from.clipId, mouseX,
                                         clickOffsetX))
                 => IF hit
                    THEN tracks' = tracks /\ toast' = "error"
                    ELSE ~ClipMissing(tracks', tracks[i].id, from.clipId)
       /\ MediaHasOverlap(AbuttingTrack, 30, 30)
       /\ \A j \in 1..2 : Overlaps(30, 60, AbuttingTrack.clips[j])
       /\ ~MediaHasOverlap(AbuttingTrack, 80, 30)
      ]_vars

\* two dropped clips of one track, the second starting where the first ends
C17_Witness ==
    \E i \in 1..Len(tracks) : \E j, k \in 1..Len(tracks[i].clips) :
        /\ j /= k
        /\ Len(tracks[i].clips[j].name) = 1
        /\ Len(tracks[i].clips[k].name) = 1
        /\ SpanEnd(tracks[i].clips[j]) > SpanStart(tracks[i].clips[j])
        /\ SpanEnd(tracks[i].clips[j]) = SpanStart(tracks[i].clips[k])

(* C18: the overlap check of a clip moved by a drop leaves the moving clip *)
(* itself out: a move within a track to a position that intersects only   *)
(* the span the clip has now is accepted, while a move to another track is *)
(* checked against every clip of that track.                               *)
C18_MoveExcludesSelf ==
    [][\A i \in 1..Len(tracks), from \in ClipTargets(tracks),
          mouseX \in MouseXs, clickOffsetX \in ClickOffsetXs :
          LET moving == LookupClip(tracks, from.trackId, from.clipId)
              newStart == FinalStartTime(SnappedTime(mouseX), clickOffsetX)
              newEnd == newStart + (SpanEnd(moving.clip) - SpanStart(moving.clip))
              others == { j \in 1..Len(tracks[i].clips) :
                             tracks[i].clips[j].id /= from.clipId }
          IN  (/\ moving.found
               /\ HandleTrackDropClip(i, from.trackId, from.clipId, mouseX,
                                      clickOffsetX))
              => IF from.trackId = tracks[i].id
                 THEN (/\ Intersects(newStart, newEnd, moving.clip)
                       /\ \A j \in others :
                              ~Intersects(newStart, newEnd, tracks[i].clips[j]))
                      => /\ LookupClip(tracks', from.trackId, from.clipId).clip
                                = [moving.clip EXCEPT !.startTime = newStart]
                         /\ toast' = toast
                 ELSE (\E j \in 1..Len(tracks[i].clips) :
                           Intersects(newStart, newEnd, tracks[i].clips[j]))
                      <=> (tracks' = tracks /\ toast' = "error")
      ]_vars

\* the only clip there ever was, moved within the only track onto part of
\* the span it had
C18_Witness ==
    /\ Len(tracks) = 1
    /\ nextTrackId = 2
    /\ nextClipId = 2
    /\ Len(tracks[1].clips) = 1
    /\ tracks[1].clips[1].startTime = 15
    /\ SpanEnd(tracks[1].clips[1]) - SpanStart(tracks[1].clips[1]) > 20

\* a media item of this type does not belong on the track
WrongType(track, type) ==
    \/ track.type = "video" /\ type = "audio"
    \/ track.type = "audio" /\ type /= "audio"
    \/ track.type = "effects"

(* C19: a drop that is rejected, because the candidate overlaps a clip of  *)
(* the track, the moving clip cannot be found, the media item is unknown   *)
(* or its type does not fit the track, leaves tracks exactly as they were: *)
(* no clip is added, moved or repositioned, and no reposition is queued.   *)
C19_RejectedDropNoMutation ==
    [][/\ \A i \in 1..Len(tracks), drag \in MediaDrags, mouseX \in MouseXs :
             LET mediaItem == FindMedia(drag.id)
                 newStart == SnappedTime(mouseX)
                 newEnd == newStart + MediaClipDuration(mediaItem.value)
                 rejected ==
                     \/ drag.id \notin { item.id : item \in MediaItems }
                     \/ WrongType(tracks[i], drag.type)
                     \/ \E j \in 1..Len(tracks[i].clips) :
                            Intersects(newStart, newEnd, tracks[i].clips[j])
             IN  (rejected /\ HandleTrackDropMedia(i, drag, mouseX))
                 => tracks' = tracks /\ frames' = frames /\ toast' = "error"
       /\ \A i \in 1..Len(tracks), from \in ClipTargets(tracks),
             mouseX \in MouseXs, clickOffsetX \in ClickOffsetXs :
             LET moving == LookupClip(tracks, from.trackId, from.clipId)
                 newStart == FinalStartTime(SnappedTime(mouseX), clickOffsetX)
                 newEnd == newStart + (SpanEnd(moving.clip) - SpanStart(moving.clip))
                 rejected ==
                     \/ ClipMissing(tracks, from.trackId, from.clipId)
                     \/ \E j \in 1..Len(tracks[i].clips) :
                            /\ tracks[i].clips[j].id /= from.clipId
                            /\ Intersects(newStart, newEnd, tracks[i].clips[j])
             IN  (rejected /\ HandleTrackDropClip(i, from.trackId, from.clipId,
                                                  mouseX, clickOffsetX))
                 => tracks' = tracks /\ frames' = frames /\ toast' = "error"
       /\ \A drag \in MediaDrags :
             (drag.id \notin { item.id : item \in MediaItems } /\ HandleDrop(drag))
             => tracks' = tracks /\ frames' = frames /\ toast' = "error"
      ]_vars

\* a drop was refused on a timeline of a video track and an audio track,
\* each with the one clip it was made with
C19_Witness ==
    /\ toast = "error"
    /\ Len(tracks) = 2
    /\ tracks[1].type /= tracks[2].type
    /\ \A i \in 1..2 : /\ Len(tracks[i].clips) = 1
                       /\ tracks[i].clips[1].id = tracks[i].id
                       /\ tracks[i].clips[1].startTime = 0
    /\ selectedClips = <<>>
    /\ currentTime = 0
    /\ frames = <<>>

(* C20: an accepted drop of a clip on another track is committed as one    *)
(* step: once the clip is among the clips of the destination track it      *)
(* carries the start time of the drop, so that no state is reachable in    *)
(* which it is there with the start time it had before the move.           *)
C20_CrossTrackDropAtomic ==
    [][\A i \in 1..Len(tracks), from \in ClipTargets(tracks),
          mouseX \in MouseXs, clickOffsetX \in ClickOffsetXs :
          LET moving == LookupClip(tracks, from.trackId, from.clipId)
              newStart == FinalStartTime(SnappedTime(mouseX), clickOffsetX)
              moved == LookupClip(tracks', tracks[i].id, from.clipId)
          IN  (/\ moving.found
               /\ from.trackId /= tracks[i].id
               /\ HandleTrackDropClip(i, from.trackId, from.clipId, mouseX,
                                      clickOffsetX))
              => (moved.found => moved.clip.startTime = newStart)
      ]_vars

\* the pairs of a selection
SelectionSet(sel) == { sel[i] : i \in 1..Len(sel) }

(* C21: select(trackId, clipId, additive) with additive false makes the    *)
(* selection exactly the pair (trackId, clipId); with additive true it     *)
(* toggles that pair, adding it if absent and removing it if present, and  *)
(* leaves every other selected pair selected.                              *)
C21_SelectContract ==
    [][\A t \in ClipTargets(tracks), additive \in BOOLEAN :
          LET pair == [trackId |-> t.trackId, clipId |-> t.clipId]
              before == SelectionSet(selectedClips)
              after == SelectionSet(selectedClips')
          IN  SelectClip(t.trackId, t.clipId, additive)
              => IF ~additive
                 THEN after = {pair}
                 ELSE after = IF pair \in before
                              THEN before \ {pair}
                              ELSE before \cup {pair}
      ]_vars

C24_DeferredRepositionTolerant ==
    [][(/\ frames /= <<>>
        /\ ClipMissing(tracks, Head(frames).trackId, Head(frames).clipId)
        /\ AnimationFrame)
       => tracks' = tracks
      ]_vars

\* a reposition is queued for a clip that is gone from its destination,
\* where another clip is left that starts elsewhere
C24_Witness ==
    /\ frames /= <<>>
    /\ ClipMissing(tracks, Head(frames).trackId, Head(frames).clipId)
    /\ \E i \in 1..Len(tracks) :
           /\ tracks[i].id = Head(frames).trackId
           /\ tracks[i].clips /= <<>>
           /\ tracks[i].clips[1].startTime /= Head(frames).startTime

\* the places (i, j) of the clips of trs with this id
PlacesOfClip(trs, id) ==
    { p \in UNION { { <<i, j>> : j \in 1..Len(trs[i].clips) } : i \in 1..Len(trs) } :
        trs[p[1]].clips[p[2]].id = id }

(* C25: moveClipToTrack never creates or destroys a clip: whatever its     *)
(* arguments, a toTrackId that does not exist and a fromTrackId equal to   *)
(* toTrackId included, each clip id occurs over all tracks as many times   *)
(* after the call as before it.                                            *)
C25_MovePreservesClips ==
    [][\A t \in ClipTargets(tracks), toTrackId \in TrackTargets(tracks) :
          MoveClipToTrack(t.trackId, toTrackId, t.clipId)
          => \A id \in AllClipIds :
                 Cardinality(PlacesOfClip(tracks', id))
                     = Cardinality(PlacesOfClip(tracks, id))
      ]_vars

(* C26: after any sequence of user operations (select, delete of the       *)
(* selection, context-menu Delete Clip and Delete Track, a move to another *)
(* track), every (trackId, clipId) pair of the selection refers to a clip  *)
(* that exists in the track with that id.                                  *)
C26_SelectionRefersToClips ==
    \A k \in 1..Len(selectedClips) :
        ~ClipMissing(tracks, selectedClips[k].trackId, selectedClips[k].clipId)

(* C27: for a drag of a timeline clip, the overlap verdict of drag-over    *)
(* and the one applied at drop agree: for the same pointer position, the   *)
(* same click offset within the clip and the same timeline, drag-over      *)
(* reports an overlap exactly when the drop is rejected for overlap.       *)
C27_DragOverAgreesWithDrop ==
    \A i \in 1..Len(tracks), from \in ClipTargets(tracks),
       mouseX \in MouseXs, clickOffsetX \in ClickOffsetXs :
        DragOverWouldOverlap(tracks, tracks[i], from.trackId, from.clipId, mouseX)
            <=> DropRejectedForOverlap(tracks, tracks[i], from.trackId,
                                       from.clipId, mouseX, clickOffsetX)

\* the type of the media a clip refers to fits the type of its track
ClipFitsTrack(track, clip) ==
    LET mediaItem == FindMedia(clip.mediaId)
    IN  mediaItem.found => IsCompatible(track, mediaItem.value.type)

(* C28: after any sequence of committed drops, of media items on the       *)
(* timeline or on a track and of clips within or across tracks, every clip *)
(* of a video track refers to video or image media and every clip of an    *)
(* audio track to audio media.                                             *)
C28_ClipsFitTheirTrack ==
    frames = <<>> =>
        \A i \in 1..Len(tracks) : \A j \in 1..Len(tracks[i].clips) :
            ClipFitsTrack(tracks[i], tracks[i].clips[j])

\* the places (i, j) of all clips of trs
AllPlaces(trs) ==
    UNION { { <<i, j>> : j \in 1..Len(trs[i].clips) } : i \in 1..Len(trs) }

(* C29: with every generated id fresh, after any sequence of store         *)
(* operations no clip id occurs twice in the timeline, neither in one      *)
(* track nor in two, and no two tracks share an id.                        *)
C29_IdsUnique ==
    /\ \A p, q \in AllPlaces(tracks) :
           tracks[p[1]].clips[p[2]].id = tracks[q[1]].clips[q[2]].id => p = q
    /\ \A i, k \in 1..Len(tracks) : tracks[i].id = tracks[k].id => i = k

\* a track holds a younger clip before an older one: the older one was
\* moved there from the other track, which is still there
C29_Witness ==
    /\ Len(tracks) = 2
    /\ \E i \in 1..Len(tracks) :
           /\ Len(tracks[i].clips) = 2
           /\ tracks[i].clips[1].id > tracks[i].clips[2].id

(* C30: after any sequence of committed operations of the timeline         *)
(* component (a drop of a media item, a drop of a clip with any click      *)
(* offset, split, duplicate, freeze frame with the playhead in             *)
(* [0, duration]), every clip's startTime is at least 0.                   *)
C30_StartTimeNonNegative ==
    \A i \in 1..Len(tracks) : \A j \in 1..Len(tracks[i].clips) :
        tracks[i].clips[j].startTime >= 0

\* a track where a clip at 0 comes after a clip that starts later: it was
\* dropped or moved to the left edge
C30_Witness ==
    \E i \in 1..Len(tracks) :
        /\ Len(tracks[i].clips) = 2
        /\ tracks[i].clips[1].startTime > 0
        /\ tracks[i].clips[2].startTime = 0
        /\ tracks[i].clips[2].id < tracks[i].clips[1].id

====
